---- MODULE Spec2Model ----
(***************************************************************************)
(* A model of the move-clippy ecosystem tooling:                           *)
(*   scripts/ecosystem_benchmark.py   (run_lint_on_repo, run_benchmark)    *)
(*   scripts/compare_baselines.py     (compare_baselines)                  *)
(*   tests/ecosystem_validation/calculate_metrics.py (calculate_metrics)   *)
(*   tests/ecosystem_validation/scripts/analyze_fp.py (calculate_fp_rate)  *)
(*                                                                         *)
(* Text is modelled as a sequence of tokens: a line of analyzer output is  *)
(* a sequence of strings, of which "warning:" is the diagnostic marker,    *)
(* ":" the delimiter and " " whitespace.  A rule name is therefore a       *)
(* sequence of tokens; the empty name is << >>.                            *)
(***************************************************************************)
EXTENDS Integers, Sequences, FiniteSets, TLC

VARIABLES
    call,       \* run_lint_on_repo: the invocation under way (arguments and environment)
    ret,        \* run_lint_on_repo: what the invocation gave its caller
    manifest,   \* run_benchmark: repos, the list read by load_repo_list
    parallel,   \* run_benchmark: max_workers of the pool
    disk,       \* run_benchmark: what repos_dir holds under each repository identifier
    lint_metadata, \* run_benchmark: result of get_lint_metadata
    futures,    \* run_benchmark: one future per submitted work item
    broken,     \* the process pool has lost a worker (0: no, i: the worker running item i died)
    results,    \* run_benchmark: the results list
    collected,  \* for each element of results, the index of the future it was collected from
    yielded,    \* the futures as_completed has yielded so far
    pc,         \* run_benchmark: position in the function
    snapshot,   \* run_benchmark: the BenchmarkResult returned
    old,        \* compare_baselines: the old baseline
    new,        \* compare_baselines: the new baseline
    report,     \* compare_baselines: what comparing old with new computed and printed
    reverse,    \* compare_baselines: what comparing new with old computed and printed
    mode,       \* which triage tool runs: "list" (calculate_metrics) or "db" (analyze_fp)
    findings,   \* calculate_metrics: triage_data['findings'] (list shape)
    metrics,    \* calculate_metrics: the returned metrics dict
    summary,    \* print_summary: the status column and the three recommendation lists
    db,         \* analyze_fp: db['findings'] (map shape), as a list of finding records in id order
    stats,      \* analyze_fp: by_lint statistics with the FP rate of each lint
    files,      \* main: the JSON files on disk, by path
    written,    \* main: what each execution so far wrote (path and content), in order
    fps,        \* generate_fp_report: the false-positive findings of one lint
    patterns,   \* generate_fp_report: extract_patterns(findings)
    recommendation, \* _generate_recommendation: the lines of the returned text
    rendered    \* generate_report: how the call ended and what it wrote to the report file

vars == <<call, ret, manifest, parallel, disk, lint_metadata, futures, broken, results,
          collected, yielded, pc, snapshot, old, new, report, reverse, mode, findings, metrics, summary, db, stats, files, written,
          fps, patterns, recommendation, rendered>>

runnerVars == <<call, ret>>
benchVars == <<manifest, parallel, disk, lint_metadata, futures, broken, results, collected,
               yielded, pc, snapshot>>
cmpVars == <<old, new, report, reverse>>
triageVars == <<mode, findings, metrics, summary, db, stats, rendered>>
mainVars == <<files, written>>
recVars == <<fps, patterns, recommendation>>

-----------------------------------------------------------------------------
(* Bounds of the model *)

MaxLines == 2       \* lines of analyzer output per run
MaxRepos == 2       \* entries of the manifest
MaxWorkers == 2     \* --parallel
MaxRuns == 2        \* executions of the benchmark in one working directory

-----------------------------------------------------------------------------
(* Generic helpers: Python dicts are functions, Optional[str] is a record *)

EmptyDict == [k \in {} |-> 0]

DictGet(d, k, default) == IF k \in DOMAIN d THEN d[k] ELSE default

\* defaultdict(int): d[k] += n
DictAdd(d, k, n) == [x \in DOMAIN d \cup {k} |-> IF x = k THEN DictGet(d, k, 0) + n ELSE d[x]]

RECURSIVE SumSet(_, _)
SumSet(d, ks) == IF ks = {} THEN 0
                 ELSE LET k == CHOOSE x \in ks : TRUE IN d[k] + SumSet(d, ks \ {k})

\* sum(d.values())
SumValues(d) == SumSet(d, DOMAIN d)

NoError == [some |-> FALSE]
Err(t) == [some |-> TRUE, text |-> t]

-----------------------------------------------------------------------------
(* scripts/ecosystem_benchmark.py: run_lint_on_repo *)

MARK == "warning:"
COLON == ":"
SP == " "

\* Lines the analyzer can print (tokenised).
LineR1 == <<MARK, SP, "unused_import", COLON, SP, "msg">>
LineR2 == <<"src/a.move", COLON, SP, MARK, "abort_code", COLON, "msg">>
LineBlank == <<MARK, SP>>
LineNote == <<"note", COLON, SP, "msg">>
OutputLines == {LineR1, LineR2, LineBlank, LineNote}

RECURSIVE SeqsUpTo(_, _)
SeqsUpTo(S, n) == IF n = 0 THEN {<<>>}
                  ELSE LET shorter == SeqsUpTo(S, n - 1)
                       IN shorter \cup {Append(s, x) : s \in {t \in shorter : Len(t) = n - 1}, x \in S}

\* What subprocess.run can do: return a CompletedProcess (any exit status, any
\* output: a negative status is death by signal), raise TimeoutExpired, or
\* raise another exception (OSError when the binary cannot be started, ...).
ExitStatuses == {0, 1, -11}
AnalyzerOutcomes ==
    [kind : {"exit"}, status : ExitStatuses, output : SeqsUpTo(OutputLines, MaxLines)]
    \cup {[kind |-> "timeout"], [kind |-> "raise", text |-> "OSError: exec failed"]}

\* A repository directory: a set of files, each under a path of directories.
FileSrc == [dirs |-> <<"sources">>, name |-> "a", ext |-> "move"]
FileTop == [dirs |-> <<>>, name |-> "b", ext |-> "move"]
FileBuild == [dirs |-> <<"build">>, name |-> "c", ext |-> "move"]
FileDep == [dirs |-> <<"sources", "dependencies">>, name |-> "d", ext |-> "move"]
FileDoc == [dirs |-> <<>>, name |-> "README", ext |-> "md"]
Missing == [isdir |-> FALSE, files |-> {}]
Dir(fs) == [isdir |-> TRUE, files |-> fs]
RepoDirs == {Missing, Dir({}), Dir({FileBuild, FileDep, FileDoc}), Dir({FileSrc, FileDoc}),
             Dir({FileSrc, FileTop, FileBuild})}

SkippedDirs == {"dependencies", "build", ".git", "node_modules"}

\* count_move_files: os.walk prunes the skipped directory names at every depth
count_move_files(repo) ==
    Cardinality({f \in repo.files :
                    /\ f.ext = "move"
                    /\ \A i \in 1..Len(f.dirs) : f.dirs[i] \notin SkippedDirs})

\* str.split(sep): the list of segments between occurrences of sep
RECURSIVE Split(_, _)
Split(s, sep) ==
    IF s = <<>> THEN << <<>> >>
    ELSE LET rest == Split(Tail(s), sep)
         IN IF Head(s) = sep THEN << <<>> >> \o rest
            ELSE << <<Head(s)>> \o Head(rest) >> \o Tail(rest)

RECURSIVE LStrip(_)
LStrip(s) == IF s # <<>> /\ Head(s) = SP THEN LStrip(Tail(s)) ELSE s

RECURSIVE RStrip(_)
RStrip(s) == IF s # <<>> /\ s[Len(s)] = SP THEN RStrip(SubSeq(s, 1, Len(s) - 1)) ELSE s

\* str.strip()
Strip(s) == LStrip(RStrip(s))

\* 'warning:' in line
HasMarker(line) == \E i \in 1..Len(line) : line[i] = MARK

Unknown == <<"unknown">>

\* lines 155-160: the key a marker line is counted under; list index [1] of
\* Python is the second segment, and indexing past the end is the IndexError
\* the except clause turns into "unknown"
LintNameOf(line) ==
    LET parts == Split(line, MARK)
    IN IF Len(parts) < 2 THEN Unknown
       ELSE LET after_warning == Strip(parts[2])
            IN Strip(Split(after_warning, COLON)[1])

\* lines 148-160: the loop over the output lines; acc = [total, lint_counts]
RECURSIVE CountFindings(_, _)
CountFindings(output, acc) ==
    IF output = <<>> THEN acc
    ELSE LET line == Head(output)
             next == IF HasMarker(line)
                     THEN [total |-> acc.total + 1,
                           lint_counts |-> DictAdd(acc.lint_counts, LintNameOf(line), 1)]
                     ELSE acc
         IN CountFindings(Tail(output), next)

RepoResult(n, t, m, b, e) ==
    [name |-> n, total_findings |-> t, move_files |-> m, lint_breakdown |-> b, error |-> e]

Return(v) == [kind |-> "return", value |-> v]
Raise(type, text) == [kind |-> "raise", type |-> type, text |-> text]

\* lines 134-168: the try body; subprocess.run is called without check=True,
\* so the exit status is never looked at
TryBody(repo_name, move_files, out) ==
    IF out.kind = "timeout" THEN Raise("TimeoutExpired", "timed out after 180 seconds")
    ELSE IF out.kind = "raise" THEN Raise("Exception", out.text)
    ELSE LET counted == CountFindings(out.output, [total |-> 0, lint_counts |-> EmptyDict])
         IN Return(RepoResult(repo_name, counted.total, move_files, counted.lint_counts, NoError))

HandleExceptionZeroFiles(repo_name, move_files, exc) ==
    IF exc.type = "TimeoutExpired"
    THEN Return(RepoResult(repo_name, 0, 0, EmptyDict, Err("Timeout after 180s")))
    ELSE Return(RepoResult(repo_name, 0, 0, EmptyDict, Err(exc.text)))

HandleExceptionOnlyTimeout(repo_name, move_files, exc) ==
    IF exc.type = "TimeoutExpired"
    THEN Return(RepoResult(repo_name, 0, move_files, EmptyDict, Err("Timeout after 180s")))
    ELSE exc

\* lines 170-187: the two except clauses
HandleException(repo_name, move_files, exc) ==
    IF exc.type = "TimeoutExpired"
    THEN Return(RepoResult(repo_name, 0, move_files, EmptyDict, Err("Timeout after 180s")))
    ELSE Return(RepoResult(repo_name, 0, move_files, EmptyDict, Err(exc.text)))

\* lines 108-187.  args = (repo_name, repo_path, experimental); repo is what
\* repo_path names on disk and out what the analyzer does when it is run.
run_lint_on_repo(args, repo, out) ==
    IF ~repo.isdir
    THEN Return(RepoResult(args.repo_name, 0, 0, EmptyDict, Err("Directory not found")))
    ELSE LET move_files == count_move_files(repo)
         IN IF move_files = 0
            THEN Return(RepoResult(args.repo_name, 0, 0, EmptyDict, Err("No .move files found")))
            ELSE LET body == TryBody(args.repo_name, move_files, out)
                 IN IF body.kind = "raise"
                    THEN HandleException(args.repo_name, move_files, body)
                    ELSE body

Repos == {"A", "B"}
NoCall == [kind |-> "none"]

\* One invocation of run_lint_on_repo on any input
Invoke ==
    /\ call = NoCall
    /\ \E n \in Repos, x \in BOOLEAN, repo \in RepoDirs, out \in AnalyzerOutcomes :
          call' = [kind |-> "call",
                   args |-> [repo_name |-> n, repo_path |-> n, experimental |-> x],
                   repo |-> repo, out |-> out]
    /\ UNCHANGED <<ret, benchVars, cmpVars, triageVars, mainVars, recVars>>

RunnerReturn ==
    /\ call # NoCall
    /\ ret = NoCall
    /\ ret' = run_lint_on_repo(call.args, call.repo, call.out)
    /\ UNCHANGED <<call, benchVars, cmpVars, triageVars, mainVars, recVars>>

-----------------------------------------------------------------------------
(* scripts/ecosystem_benchmark.py: get_lint_metadata, run_benchmark *)

\* Output of "move-clippy list-rules": lines already split at tabs
RuleLineR1 == << <<"unused_import">>, "style", "stable" >>
RuleLineShort == << <<"abort_code">>, "security" >>
RuleFeeds == {[kind |-> "raise"],
              [kind |-> "exit", lines |-> <<RuleLineShort>>],
              [kind |-> "exit", lines |-> <<RuleLineR1, RuleLineShort>>]}

RECURSIVE MetadataOfLines(_, _)
MetadataOfLines(lines, metadata) ==
    IF lines = <<>> THEN metadata
    ELSE LET parts == Head(lines)
             next == IF Len(parts) >= 3
                     THEN [n \in DOMAIN metadata \cup {parts[1]} |->
                             IF n = parts[1] THEN [category |-> parts[2], tier |-> parts[3]]
                             ELSE metadata[n]]
                     ELSE metadata
         IN MetadataOfLines(Tail(lines), next)

\* lines 80-95
get_lint_metadata(feed) ==
    IF feed.kind = "raise" THEN EmptyDict ELSE MetadataOfLines(feed.lines, EmptyDict)

\* What a task of the benchmark run can meet (a part of RepoDirs and AnalyzerOutcomes)
BenchDirs == {Missing, Dir({}), Dir({FileSrc, FileDoc})}
BenchOutcomes == {[kind |-> "exit", status |-> 0, output |-> <<LineR1>>],
                  [kind |-> "exit", status |-> 0, output |-> <<LineR2, LineBlank>>],
                  [kind |-> "timeout"],
                  [kind |-> "raise", text |-> "OSError: exec failed"]}

\* lines 223-227
WorkItem(repo) == [repo_name |-> repo, repo_path |-> repo, experimental |-> TRUE]
work_items == [i \in 1..Len(manifest) |-> WorkItem(manifest[i])]

Pending == [state |-> "pending"]
Running == [state |-> "running"]
Done(r) == [state |-> "done", result |-> r]
Failed(text) == [state |-> "failed", text |-> text]

BrokenPoolText == "A process in the process pool was terminated abruptly"

N == Len(manifest)

\* line 233-234: one future per work item
Submit ==
    /\ pc = "submit"
    /\ futures' = [i \in 1..N |-> Pending]
    /\ pc' = "pool"
    /\ UNCHANGED <<manifest, parallel, disk, lint_metadata, broken, results, collected, yielded,
                   snapshot, runnerVars, cmpVars, triageVars, mainVars, recVars>>

NumRunning == Cardinality({i \in 1..N : futures[i].state = "running"})

\* A free worker process takes the next work item of the call queue
StartTask(i) ==
    /\ pc = "pool"
    /\ futures[i].state = "pending"
    /\ \A j \in 1..(i - 1) : futures[j].state # "pending"
    /\ NumRunning < parallel
    /\ futures' = [futures EXCEPT ![i] = Running]
    /\ UNCHANGED <<manifest, parallel, disk, lint_metadata, broken, results, collected, yielded,
                   pc, snapshot, runnerVars, cmpVars, triageVars, mainVars, recVars>>

\* The worker runs run_lint_on_repo(item) and the future takes what it gave
FinishTask(i) ==
    /\ pc = "pool"
    /\ futures[i].state = "running"
    /\ \E out \in BenchOutcomes :
          LET r == run_lint_on_repo(work_items[i], disk[work_items[i].repo_path], out)
          IN futures' = [futures EXCEPT ![i] =
                            IF r.kind = "return" THEN Done(r.value) ELSE Failed(r.text)]
    /\ UNCHANGED <<manifest, parallel, disk, lint_metadata, broken, results, collected, yielded,
                   pc, snapshot, runnerVars, cmpVars, triageVars, mainVars, recVars>>

\* ProcessPoolExecutor (line 233): when a worker process dies abruptly the pool
\* is broken: every future that has not completed gets BrokenProcessPool and
\* the remaining workers are terminated
WorkerDies(i) ==
    /\ pc = "pool"
    /\ futures[i].state = "running"
    /\ broken' = i
    /\ futures' = [j \in 1..N |->
                     IF futures[j].state \in {"pending", "running"}
                     THEN Failed(BrokenPoolText) ELSE futures[j]]
    /\ UNCHANGED <<manifest, parallel, disk, lint_metadata, results, collected, yielded,
                   pc, snapshot, runnerVars, cmpVars, triageVars, mainVars, recVars>>

CollectFutureDropFailed(fut, repo_name) ==
    IF fut.state = "done" THEN <<fut.result>> ELSE <<>>

\* lines 238-252: what the loop body appends to results for one completed future
CollectFuture(fut, repo_name) ==
    IF fut.state = "done" THEN <<fut.result>>
    ELSE <<RepoResult(repo_name, 0, 0, EmptyDict, Err(fut.text))>>

\* lines 236-252: as_completed yields each future once, when it has completed
Collect(i) ==
    /\ pc = "pool"
    /\ futures[i].state \in {"done", "failed"}
    /\ i \notin yielded
    /\ LET got == CollectFuture(futures[i], work_items[i].repo_name)
       IN /\ results' = results \o got
          /\ collected' = collected \o [k \in 1..Len(got) |-> i]
    /\ yielded' = yielded \cup {i}
    /\ UNCHANGED <<manifest, parallel, disk, lint_metadata, futures, broken,
                   pc, snapshot, runnerVars, cmpVars, triageVars, mainVars, recVars>>

\* sum(r.total_findings for r in results)
RECURSIVE SumTotals(_)
SumTotals(rs) == IF rs = <<>> THEN 0 ELSE Head(rs).total_findings + SumTotals(Tail(rs))

\* lines 260-263, for one result: by_lint is a defaultdict of {"count": 0, "repos": []}
AddResult(by_lint, result) ==
    [l \in DOMAIN by_lint \cup DOMAIN result.lint_breakdown |->
        IF l \in DOMAIN result.lint_breakdown
        THEN LET e == DictGet(by_lint, l, [count |-> 0, repos |-> <<>>])
             IN [e EXCEPT !.count = @ + result.lint_breakdown[l],
                          !.repos = Append(@, result.name)]
        ELSE by_lint[l]]

\* lines 259-263
RECURSIVE AggregateByLint(_, _)
AggregateByLint(rs, by_lint) ==
    IF rs = <<>> THEN by_lint ELSE AggregateByLint(Tail(rs), AddResult(by_lint, Head(rs)))

\* lines 266-269: only a rule found in the metadata gets the two keys
AddTierInfo(by_lint, metadata) ==
    [l \in DOMAIN by_lint |->
        IF l \in DOMAIN metadata
        THEN [count |-> by_lint[l].count, repos |-> by_lint[l].repos,
              tier |-> metadata[l].tier, category |-> metadata[l].category]
        ELSE by_lint[l]]

\* lines 272-278, for one of the two rollups: data.get(key, "unknown")
RECURSIVE RollUp(_, _, _, _)
RollUp(by_lint, names, key, acc) ==
    IF names = {} THEN acc
    ELSE LET l == CHOOSE x \in names : TRUE
             data == by_lint[l]
             bucket == IF key \in DOMAIN data THEN data[key] ELSE "unknown"
         IN RollUp(by_lint, names \ {l}, key, DictAdd(acc, bucket, data.count))

\* lines 281-289: a dict comprehension, so a later result of the same name
\* replaces an earlier one
ReposDict(rs) ==
    [n \in {rs[i].name : i \in 1..Len(rs)} |->
        LET last == CHOOSE i \in 1..Len(rs) :
                        rs[i].name = n /\ \A j \in (i + 1)..Len(rs) : rs[j].name # n
        IN [findings |-> rs[last].total_findings, move_files |-> rs[last].move_files,
            error |-> rs[last].error]]

\* lines 254-302
BenchmarkResult(repos, rs, metadata) ==
    LET by_lint == AddTierInfo(AggregateByLint(rs, EmptyDict), metadata)
    IN [total_repos |-> Len(repos),
        repos_with_findings |-> Cardinality({i \in 1..Len(rs) : rs[i].total_findings > 0}),
        total_findings |-> SumTotals(rs),
        by_lint |-> by_lint,
        by_tier |-> RollUp(by_lint, DOMAIN by_lint, "tier", EmptyDict),
        by_category |-> RollUp(by_lint, DOMAIN by_lint, "category", EmptyDict),
        repos |-> ReposDict(rs)]

NoSnapshot == [kind |-> "none"]

\* get_version (lines 68-77): what the binary prints, "unknown" when the call raises
Versions == {"0.1.0", "0.2.0", "unknown"}

\* lines 292-293: the snapshot with its version and timestamp; the timestamp
\* of an execution is later than that of every execution before it
Stamped(b, version, timestamp) ==
    [f \in DOMAIN b \cup {"version", "timestamp"} |->
        IF f = "version" THEN version ELSE IF f = "timestamp" THEN timestamp ELSE b[f]]

LoopExhaustedEarly == yielded # {}

\* line 236: as_completed has yielded every future
LoopExhausted == yielded = 1..N

\* The with block is left when as_completed is exhausted; then lines 254-302
Aggregate ==
    /\ pc = "pool"
    /\ LoopExhausted
    /\ \E v \in Versions :
          snapshot' = Stamped(BenchmarkResult(manifest, results, lint_metadata), v,
                              Len(written) + 1)
    /\ pc' = "done"
    /\ UNCHANGED <<manifest, parallel, disk, lint_metadata, futures, broken, results, collected,
                   yielded, runnerVars, cmpVars, triageVars, mainVars, recVars>>

-----------------------------------------------------------------------------
(* scripts/ecosystem_benchmark.py: main *)

EmptyFiles == [p \in {} |-> NoSnapshot]

\* args.output
NoOutput == [given |-> FALSE]
Outputs == {NoOutput, [given |-> TRUE, path |-> <<"custom.json">>]}

\* lines 361-364
OutputPath(output, result) ==
    IF output.given THEN output.path ELSE <<"baselines/baseline_", result.version, ".json">>

\* lines 367-368: open(output_path, 'w') replaces what the path held
WriteFile(fs, path, content) ==
    [p \in DOMAIN fs \cup {path} |-> IF p = path THEN content ELSE fs[p]]

\* lines 357-368, with the record of the write
SaveResult(result, output) ==
    /\ files' = WriteFile(files, OutputPath(output, result), result)
    /\ written' = Append(written, [path |-> OutputPath(output, result), content |-> result,
                                    output |-> output])

\* main after run_benchmark has returned
WriteSnapshot ==
    /\ pc = "done"
    /\ \E output \in Outputs : SaveResult(snapshot, output)
    /\ pc' = "written"
    /\ UNCHANGED <<manifest, parallel, disk, lint_metadata, futures, broken, results, collected,
                   yielded, snapshot, runnerVars, cmpVars, triageVars, recVars>>

\* KeyboardInterrupt in the main process: it is no Exception, so nothing
\* catches it and main ends with it
Interrupt ==
    /\ pc \in {"submit", "pool", "done"}
    /\ pc' = "interrupted"
    /\ UNCHANGED <<manifest, parallel, disk, lint_metadata, futures, broken, results, collected,
                   yielded, snapshot, runnerVars, cmpVars, triageVars, mainVars, recVars>>

-----------------------------------------------------------------------------
(* scripts/compare_baselines.py: compare_baselines *)

MaxCmpCount == 1    \* findings of one rule in one repository of a compared baseline
MaxExtra == 2       \* rules (and repositories) of a larger baseline beyond the 20 shown

TopLints == 20
TopRepos == 10

Abs(x) == IF x < 0 THEN -x ELSE x
Min(a, b) == IF a < b THEN a ELSE b

\* The baselines compared: what run_benchmark gives for results of repositories
\* A and B (each in the manifest or not) with findings of two rules, under the
\* metadata that knows the first rule
Rule1 == <<"unused_import">>
Rule2 == <<"abort_code">>
BreakdownOf(x, y) ==
    [l \in (IF x > 0 THEN {Rule1} ELSE {}) \cup (IF y > 0 THEN {Rule2} ELSE {}) |->
        IF l = Rule1 THEN x ELSE y]
ResultsOfRepo(n) ==
    {<<>>} \cup {<<RepoResult(n, x + y, 1, BreakdownOf(x, y), NoError)>> :
                    x \in 0..MaxCmpCount, y \in 0..MaxCmpCount}
NamesOf(rs) == [i \in 1..Len(rs) |-> rs[i].name]
Baselines ==
    {BenchmarkResult(NamesOf(rs), rs, get_lint_metadata([kind |-> "exit", lines |-> <<RuleLineR1>>])) :
        rs \in {a \o b : a \in ResultsOfRepo("A"), b \in ResultsOfRepo("B")}}

\* Baselines of a larger benchmark: NumBig repositories, named by numbers, the
\* i-th with findings of one rule of its own (named by the same number); each
\* repository and rule has 1 finding in the first, 2 or 3 in the second
NumBig == TopLints + MaxExtra
BigRepoKeys == [i \in 1..NumBig |-> ToString(i)]
BigRuleKeys == [i \in 1..NumBig |-> <<ToString(i)>>]
BigResults(base) ==
    [i \in 1..NumBig |->
        LET c == IF base THEN 1 ELSE 2 + (i % 2)
        IN RepoResult(BigRepoKeys[i], c, 1, [l \in {BigRuleKeys[i]} |-> c], NoError)]
BigBaselines ==
    {BenchmarkResult(NamesOf(BigResults(base)), BigResults(base), EmptyDict) : base \in BOOLEAN}

\* The orders in which iterating a Python set of the keys ks can yield them
IterationOrders(ks) ==
    {p \in [1..Cardinality(ks) -> ks] : \A i, j \in 1..Cardinality(ks) : i # j => p[i] # p[j]}

Reversed(q) == [i \in 1..Len(q) |-> q[Len(q) + 1 - i]]

\* The iteration orders explored: all of them for the keys of Baselines, two
\* of them (ascending and descending number) for the keys of BigBaselines
LintOrders(ks) ==
    IF Cardinality(ks) = NumBig THEN {BigRuleKeys, Reversed(BigRuleKeys)} ELSE IterationOrders(ks)
RepoOrders(ks) ==
    IF Cardinality(ks) = NumBig THEN {BigRepoKeys, Reversed(BigRepoKeys)} ELSE IterationOrders(ks)

\* new_val - old_val, lines 43, 58, 77, 122
Delta(old_val, new_val) == new_val - old_val

\* lines 36-45
OverallRows(o, n) ==
    [m \in {"total_repos", "repos_with_findings", "total_findings"} |->
        [old |-> o[m], new |-> n[m], delta |-> Delta(o[m], n[m])]]

\* lines 54-60; the rows are printed in the order of sorted(all_tiers)
TierRows(o, n) ==
    [t \in DOMAIN o.by_tier \cup DOMAIN n.by_tier |->
        LET old_val == DictGet(o.by_tier, t, 0)
            new_val == DictGet(n.by_tier, t, 0)
        IN [old |-> old_val, new |-> new_val, delta |-> Delta(old_val, new_val)]]

\* lints.get(lint, {}).get('count', 0) and repos.get(repo, {}).get('findings', 0)
FieldOr0(table, k, field) ==
    IF k \in DOMAIN table /\ field \in DOMAIN table[k] THEN table[k][field] ELSE 0

ChangeRow(old_table, new_table, k, field) ==
    LET old_count == FieldOr0(old_table, k, field)
        new_count == FieldOr0(new_table, k, field)
    IN [key |-> k, old |-> old_count, new |-> new_count, delta |-> Delta(old_count, new_count)]

KeepsRowOnlyIncrease(row) == row.delta > 0

\* lines 78 and 123: if delta != 0
KeepsRow(row) == row.delta # 0

\* lines 73-79 and 118-124: the loop over the set of keys, in iteration order iter
RECURSIVE Changes(_, _, _, _)
Changes(old_table, new_table, iter, field) ==
    IF iter = <<>> THEN <<>>
    ELSE LET row == ChangeRow(old_table, new_table, Head(iter), field)
             rest == Changes(old_table, new_table, Tail(iter), field)
         IN IF KeepsRow(row) THEN <<row>> \o rest ELSE rest

\* list.sort(key=lambda x: -abs(x[3])) is stable: a row goes behind the rows
\* of at least its absolute delta that came before it
RECURSIVE InsertByAbs(_, _)
InsertByAbs(sorted, row) ==
    IF sorted = <<>> THEN <<row>>
    ELSE IF Abs(Head(sorted).delta) >= Abs(row.delta)
         THEN <<Head(sorted)>> \o InsertByAbs(Tail(sorted), row)
         ELSE <<row>> \o sorted

RECURSIVE SortByAbs(_, _)
SortByAbs(rows, sorted) ==
    IF rows = <<>> THEN sorted ELSE SortByAbs(Tail(rows), InsertByAbs(sorted, Head(rows)))

\* changes[:n]
FirstN(rows, n) == SubSeq(rows, 1, Min(n, Len(rows)))

VerdictRegressionOnEqual(o, n) ==
    LET total_delta == Delta(o.total_findings, n.total_findings)
    IN IF total_delta >= 0 THEN [kind |-> "regression", amount |-> total_delta]
       ELSE [kind |-> "improvement", amount |-> -total_delta]

\* lines 136-142
Verdict(o, n) ==
    LET total_delta == Delta(o.total_findings, n.total_findings)
    IN IF total_delta > 0 THEN [kind |-> "regression", amount |-> total_delta]
       ELSE IF total_delta < 0 THEN [kind |-> "improvement", amount |-> -total_delta]
       ELSE [kind |-> "no change", amount |-> 0]

\* lines 24-142: everything the comparison of o (old) with n (new) prints;
\* lint_iter and repo_iter are the iteration orders of the two key sets
compare_baselines(o, n, lint_iter, repo_iter) ==
    LET changes == SortByAbs(Changes(o.by_lint, n.by_lint, lint_iter, "count"), <<>>)
        repo_changes == SortByAbs(Changes(o.repos, n.repos, repo_iter, "findings"), <<>>)
    IN [overall |-> OverallRows(o, n),
        tiers |-> TierRows(o, n),
        changes |-> changes,
        shown |-> FirstN(changes, TopLints),
        more |-> IF Len(changes) > TopLints THEN Len(changes) - TopLints ELSE 0,
        new_only |-> [l \in DOMAIN n.by_lint \ DOMAIN o.by_lint |->
                        [count |-> FieldOr0(n.by_lint, l, "count"),
                         tier |-> IF "tier" \in DOMAIN n.by_lint[l] THEN n.by_lint[l].tier
                                  ELSE "unknown"]],
        removed |-> [l \in DOMAIN o.by_lint \ DOMAIN n.by_lint |->
                        FieldOr0(o.by_lint, l, "count")],
        repo_changes |-> repo_changes,
        repo_shown |-> FirstN(repo_changes, TopRepos),
        verdict |-> Verdict(o, n)]

NoReport == [kind |-> "none"]

\* python3 scripts/compare_baselines.py old new
CompareForward ==
    /\ report = NoReport
    /\ \E li \in LintOrders(DOMAIN old.by_lint \cup DOMAIN new.by_lint),
          ri \in RepoOrders(DOMAIN old.repos \cup DOMAIN new.repos) :
          report' = compare_baselines(old, new, li, ri)
    /\ UNCHANGED <<old, new, reverse, runnerVars, benchVars, triageVars, mainVars, recVars>>

\* python3 scripts/compare_baselines.py new old
CompareReverse ==
    /\ reverse = NoReport
    /\ \E li \in LintOrders(DOMAIN new.by_lint \cup DOMAIN old.by_lint),
          ri \in RepoOrders(DOMAIN new.repos \cup DOMAIN old.repos) :
          reverse' = compare_baselines(new, old, li, ri)
    /\ UNCHANGED <<old, new, report, runnerVars, benchVars, triageVars, mainVars, recVars>>

-----------------------------------------------------------------------------
(* Python floats: IEEE 754 binary64, round to nearest, ties to even.           *)
(* A positive float is [m, e]: m the 53 bits of the significand, most          *)
(* significant first and m[1] = 1, standing for the integer m times 2^e.       *)

MantBits == 53

Max(a, b) == IF a > b THEN a ELSE b

Zeros(n) == [i \in 1..n |-> 0]

FZero == [m |-> <<>>, e |-> 0]

\* a binary numeral without its leading zeros
TrimLeading(b) ==
    IF \A i \in 1..Len(b) : b[i] = 0 THEN <<>>
    ELSE LET first == CHOOSE i \in 1..Len(b) : b[i] = 1 /\ \A j \in 1..(i - 1) : b[j] = 0
         IN SubSeq(b, first, Len(b))

RECURSIVE BitsOfNat(_)
BitsOfNat(n) == IF n = 0 THEN <<>> ELSE BitsOfNat(n \div 2) \o <<n % 2>>

\* the carry into place i of the sum of two numerals of one length: some
\* lower place generates a carry that every place between passes on
CarryInto(a, b, i) ==
    IF \E j \in (i + 1)..Len(a) :
           a[j] + b[j] = 2 /\ \A k \in (i + 1)..(j - 1) : a[k] + b[k] = 1
    THEN 1 ELSE 0

\* the sum of two binary numerals
AddBits(a, b) ==
    LET n == Max(Len(a), Len(b))
        x == Zeros(n - Len(a)) \o a
        y == Zeros(n - Len(b)) \o b
        sum == [i \in 1..n |-> (x[i] + y[i] + CarryInto(x, y, i)) % 2]
    IN IF CarryInto(x, y, 0) = 1 THEN <<1>> \o sum ELSE sum

\* the numeral b times the natural number c
RECURSIVE MulSmall(_, _)
MulSmall(b, c) ==
    IF c = 0 THEN <<>>
    ELSE LET twice == MulSmall(b, c \div 2) \o <<0>>
         IN IF c % 2 = 1 THEN AddBits(twice, b) ELSE twice

\* n more binary digits of r / b, for r < b, and the remainder left
RECURSIVE FracBits(_, _, _)
FracBits(r, b, n) ==
    IF n = 0 THEN [bits |-> <<>>, rem |-> r]
    ELSE IF n = 1
         THEN LET bit == IF 2 * r >= b THEN 1 ELSE 0
              IN [bits |-> <<bit>>, rem |-> 2 * r - bit * b]
         ELSE LET first == FracBits(r, b, n \div 2)
                  second == FracBits(first.rem, b, n - n \div 2)
              IN [bits |-> first.bits \o second.bits, rem |-> second.rem]

\* The float nearest to bits * 2^e (plus a non-zero tail below the last bit
\* when sticky), ties to even
Round(bits, e, sticky) ==
    LET t == TrimLeading(bits)
        n == Len(t)
    IN IF n = 0 THEN FZero
       ELSE IF n <= MantBits THEN [m |-> t \o Zeros(MantBits - n), e |-> e - (MantBits - n)]
       ELSE LET keep == SubSeq(t, 1, MantBits)
                rest == sticky \/ \E i \in (MantBits + 2)..n : t[i] = 1
                up == t[MantBits + 1] = 1 /\ (rest \/ keep[MantBits] = 1)
                inc == IF up THEN AddBits(keep, <<1>>) ELSE keep
            IN IF Len(inc) > MantBits
               THEN [m |-> SubSeq(inc, 1, MantBits), e |-> e + (n - MantBits) + 1]
               ELSE [m |-> inc, e |-> e + (n - MantBits)]

\* float(n)
FromInt(n) == Round(BitsOfNat(n), 0, FALSE)

\* a / b of two ints (true division, correctly rounded), b > 0
FDivInt(a, b) ==
    LET digits == MantBits + 2 + Len(BitsOfNat(b))
        frac == FracBits(a % b, b, digits)
    IN Round(BitsOfNat(a \div b) \o frac.bits, -digits, frac.rem # 0)

\* x * c for a float x and an int c
FMulInt(x, c) == IF x = FZero THEN FZero ELSE Round(MulSmall(x.m, c), x.e, FALSE)

\* x + y
FAdd(x, y) ==
    IF x = FZero THEN y
    ELSE IF y = FZero THEN x
    ELSE LET e == IF x.e < y.e THEN x.e ELSE y.e
         IN Round(AddBits(x.m \o Zeros(x.e - e), y.m \o Zeros(y.e - e)), e, FALSE)

\* the first place where two numerals of one length differ (0: nowhere)
FirstDiff(a, b) ==
    IF a = b THEN 0 ELSE CHOOSE i \in 1..Len(a) : a[i] # b[i] /\ \A j \in 1..(i - 1) : a[j] = b[j]

\* x < y
FLess(x, y) ==
    IF y = FZero THEN FALSE
    ELSE IF x = FZero THEN TRUE
    ELSE \/ x.e < y.e
         \/ x.e = y.e /\ FirstDiff(x.m, y.m) # 0 /\ x.m[FirstDiff(x.m, y.m)] < y.m[FirstDiff(x.m, y.m)]

FLessEq(x, y) == x = y \/ FLess(x, y)

-----------------------------------------------------------------------------
(* tests/ecosystem_validation/calculate_metrics.py: calculate_metrics *)

MaxFindings == 4    \* findings in a triage dataset of any mix of rules and classifications
MaxSample == 10     \* findings of one classification in a triage dataset of one rule

Lints == {"R", "S"}
Classifications == {"TP", "FP", "INFO", "SKIP"}

Finding(l, c) == [lint |-> l, classification |-> c]

\* n copies of x
Copies(x, n) == [i \in 1..n |-> x]

\* The triage lists: for every number of findings of each rule and
\* classification, the list that holds them rule by rule
RECURSIVE ListsOver(_, _)
ListsOver(kinds, budget) ==
    IF kinds = {} THEN {<<>>}
    ELSE LET k == CHOOSE x \in kinds : TRUE
         IN UNION {{Copies(k, n) \o rest : rest \in ListsOver(kinds \ {k}, budget - n)} :
                      n \in 0..budget}

MakeFinding(k) == Finding(k[1], k[2])

\* Larger samples of one rule: a true positives, b false positives and c
\* informational findings
SampleLists ==
    {Copies(Finding("R", "TP"), a) \o Copies(Finding("R", "FP"), b) \o Copies(Finding("R", "INFO"), c) :
        a \in 0..MaxSample, b \in 0..MaxSample, c \in 0..MaxSample}

TriageLists ==
    {[i \in 1..Len(ks) |-> MakeFinding(ks[i])] : ks \in ListsOver(Lints \X Classifications, MaxFindings)}
        \cup SampleLists

\* sum(1 for f in findings if f['classification'] == c)
CountClassified(fs, c) == Cardinality({i \in 1..Len(fs) : fs[i].classification = c})

TotalClassifiedWithInfo(tp_count, fp_count, info_count) == tp_count + fp_count + info_count

\* line 54
TotalClassified(tp_count, fp_count, info_count) == tp_count + fp_count

\* lines 57-60
FpRate(fp_count, total_classified) ==
    IF total_classified > 0 THEN FMulInt(FDivInt(fp_count, total_classified), 100) ELSE FZero

\* line 63
Precision(tp_count, total_classified) ==
    IF total_classified > 0 THEN FMulInt(FDivInt(tp_count, total_classified), 100) ELSE FZero

\* lines 48-73, for the findings of one lint
LintMetrics(fs) ==
    LET tp_count == CountClassified(fs, "TP")
        fp_count == CountClassified(fs, "FP")
        info_count == CountClassified(fs, "INFO")
        skip_count == CountClassified(fs, "SKIP")
        total_classified == TotalClassified(tp_count, fp_count, info_count)
    IN [total |-> Len(fs), tp |-> tp_count, fp |-> fp_count, info |-> info_count,
        skip |-> skip_count,
        fp_rate |-> FpRate(fp_count, total_classified),
        precision |-> Precision(tp_count, total_classified)]

\* lines 42-44: by_lint[finding['lint']].append(finding)
GroupOf(fs, l) == SelectSeq(fs, LAMBDA f : f.lint = l)

\* lines 38-75
calculate_metrics(fs) ==
    [l \in {fs[i].lint : i \in 1..Len(fs)} |-> LintMetrics(GroupOf(fs, l))]

NoMetrics == [kind |-> "none"]

CalculateMetrics ==
    /\ mode = "list"
    /\ metrics = NoMetrics
    /\ metrics' = calculate_metrics(findings)
    /\ UNCHANGED <<mode, findings, summary, db, stats, rendered, runnerVars, benchVars, cmpVars, mainVars, recVars>>

\* the thresholds of print_summary (and of generate_report)
StableBelow == 10
PreviewBelow == 25
RefineBelow == 30
MinSample == 5

\* lines 116-121 (and 188-193): the status shown for a rule
StatusOfRate(fp_rate) ==
    IF FLess(fp_rate, FromInt(StableBelow)) THEN "STABLE"
    ELSE IF FLess(fp_rate, FromInt(PreviewBelow)) THEN "PREVIEW"
    ELSE "RESEARCH"

\* line 131 (and 249): m['fp_rate'] < 10 and m['total'] >= 5
Promotable(m) == FLess(m.fp_rate, FromInt(StableBelow)) /\ m.total >= MinSample

\* line 132 (and 250): 10 <= m['fp_rate'] < 30
NeedsRefinement(m) ==
    FLessEq(FromInt(StableBelow), m.fp_rate) /\ FLess(m.fp_rate, FromInt(RefineBelow))

\* line 133 (and 251): m['fp_rate'] >= 30
NeedsDemotion(m) == FLessEq(FromInt(RefineBelow), m.fp_rate)

\* lines 78-150: what print_summary shows of the metrics
print_summary(ms) ==
    [status |-> [l \in DOMAIN ms |-> StatusOfRate(ms[l].fp_rate)],
     promotable |-> {l \in DOMAIN ms : Promotable(ms[l])},
     needs_refinement |-> {l \in DOMAIN ms : NeedsRefinement(ms[l])},
     needs_demotion |-> {l \in DOMAIN ms : NeedsDemotion(ms[l])}]

\* main, line 299
PrintSummary ==
    /\ mode = "list"
    /\ metrics # NoMetrics
    /\ summary = NoMetrics
    /\ summary' = print_summary(metrics)
    /\ UNCHANGED <<mode, findings, metrics, db, stats, rendered, runnerVars, benchVars, cmpVars, mainVars, recVars>>

\* lines 153-271.  The file is opened for writing at line 156 and each part is
\* written as the function reaches it, so a call that raises leaves the parts
\* written until then.  has_rationale: the findings carry the optional
\* 'rationale' field.  No finding of the datasets has a 'severity', so the
\* highlights (lines 205-222) list none.
generate_report(ms, fs, has_rationale) ==
    LET total_tp == SumValues([l \in DOMAIN ms |-> ms[l].tp])
        total_fp == SumValues([l \in DOMAIN ms |-> ms[l].fp])
        fp_by_lint == {fs[i].lint : i \in {k \in 1..Len(fs) : fs[k].classification = "FP"}}
        head == <<"title", "metadata", "summary_counts">>
        upto_fp == head \o <<"overall_precision", "table", "highlights", "fp_heading">>
    IN IF total_tp + total_fp = 0
       THEN [raised |-> "ZeroDivisionError", sections |-> head]
       ELSE IF fp_by_lint # {}
       THEN IF has_rationale
            THEN [raised |-> "TypeError",
                  sections |-> upto_fp \o <<"fp_lint_heading", "common_causes_heading">>]
            ELSE [raised |-> "KeyError", sections |-> upto_fp \o <<"fp_lint_heading">>]
       ELSE [raised |-> "none",
             sections |-> upto_fp \o <<"recommendations">>,
             precision |-> FMulInt(FDivInt(total_tp, total_tp + total_fp), 100)]

\* main, line 303
GenerateReport ==
    /\ mode = "list"
    /\ summary # NoMetrics
    /\ rendered = NoMetrics
    /\ \E has_rationale \in BOOLEAN :
          rendered' = generate_report(metrics, findings, has_rationale)
    /\ UNCHANGED <<mode, findings, metrics, summary, db, stats, runnerVars, benchVars, cmpVars,
                   mainVars, recVars>>

-----------------------------------------------------------------------------
(* tests/ecosystem_validation/scripts/analyze_fp.py: analyze_findings, calculate_fp_rate *)

Statuses == {"confirmed", "false_positive", "wont_fix", "needs_review"}

\* a finding of the database; one with no "status" key is a record without it
DbFinding(l, st) == IF st = "absent" THEN [lint |-> l] ELSE [lint |-> l, status |-> st]
MakeDbFinding(k) == DbFinding(k[1], k[2])

\* db["findings"].values(), for every number of findings of each rule and status
TriageDbs ==
    {[i \in 1..Len(ks) |-> MakeDbFinding(ks[i])] :
        ks \in ListsOver(Lints \X (Statuses \cup {"absent"}), MaxFindings)}

\* finding.get("status", "needs_review")
StatusOf(f) == IF "status" \in DOMAIN f THEN f.status ELSE "needs_review"

\* the findings whose status is st
CountStatus(fs, st) == Cardinality({i \in 1..Len(fs) : StatusOf(fs[i]) = st})

\* the findings that reach the else branch of lines 53-62
CountOtherStatus(fs) ==
    Cardinality({i \in 1..Len(fs) :
                    StatusOf(fs[i]) \notin {"confirmed", "false_positive", "wont_fix"}})

\* lines 52-62, for the findings of one lint: the else branch takes every
\* status that is none of the first three
LintStats(fs) ==
    [total |-> Len(fs),
     confirmed |-> CountStatus(fs, "confirmed"),
     fp |-> CountStatus(fs, "false_positive"),
     wont_fix |-> CountStatus(fs, "wont_fix"),
     needs_review |-> CountOtherStatus(fs)]

\* lines 29-78: stats["by_lint"]
analyze_findings(fs) ==
    [l \in {fs[i].lint : i \in 1..Len(fs)} |-> LintStats(GroupOf(fs, l))]

ReviewedWithNeedsReview(lint_stats) ==
    lint_stats.confirmed + lint_stats.fp + lint_stats.wont_fix + lint_stats.needs_review

\* line 108 (and line 146)
Reviewed(lint_stats) == lint_stats.confirmed + lint_stats.fp + lint_stats.wont_fix

\* lines 106-111
calculate_fp_rate(lint_stats) ==
    LET reviewed == Reviewed(lint_stats)
    IN IF reviewed = 0 THEN FZero ELSE FMulInt(FDivInt(lint_stats.fp, reviewed), 100)

\* lines 145-147: the by_lint statistics, each with the FP rate the report shows
AnalyzeFp ==
    /\ mode = "db"
    /\ stats = NoMetrics
    /\ stats' = LET by_lint == analyze_findings(db)
                IN [l \in DOMAIN by_lint |->
                       [data |-> by_lint[l], fp_rate |-> calculate_fp_rate(by_lint[l])]]
    /\ UNCHANGED <<mode, findings, metrics, summary, db, rendered, runnerVars, benchVars, cmpVars, mainVars, recVars>>

-----------------------------------------------------------------------------
(* Specifications *)

-----------------------------------------------------------------------------
(* tests/ecosystem_validation/scripts/analyze_fp.py: extract_patterns,
   _generate_recommendation *)

MaxFps == 2         \* false-positive findings of the lint reported on

\* Notes of triaged findings, as words (a keyword of the code is one word)
NoteTexts ==
    {<<"DTO", SP, "struct">>, <<SP, "plain", SP, "Data Transfer", SP>>,
     <<"return", SP, "type">>, <<"return", SP, "early">>, <<"Test", SP, "helper">>,
     <<"Intentional">>, <<"legacy", SP, "api">>, <<SP, "legacy", SP, "api">>,
     <<"generated">>, <<SP>>, <<>>}

\* a finding with its "notes", or one without the key
FpFindings == {[notes |-> t] : t \in NoteTexts} \cup {[repo |-> "A"]}

\* str.lower(), word by word
LowerWord(w) ==
    CASE w = "DTO" -> "dto"
      [] w = "Data Transfer" -> "data transfer"
      [] w = "Return" -> "return"
      [] w = "Test" -> "test"
      [] w = "Intentional" -> "intentional"
      [] w = "No" -> "no"
      [] w = "Object" -> "object"
      [] OTHER -> w
Lower(t) == [i \in 1..Len(t) |-> LowerWord(t[i])]

\* kw in text
Contains(text, kw) == \E i \in 1..Len(text) : text[i] = kw

\* the labels of lines 93-99 and 88
PatternDto == <<"Data Transfer", SP, "Object", SP, "(", "DTO", ")">>
PatternReturn == <<"Return", SP, "value", SP, "struct">>
PatternTest == <<"Test", "-only", SP, "code">>
PatternIntentional == <<"Intentional", SP, "design", SP, "choice">>
NoPatternNoted == <<"No", SP, "pattern", SP, "noted">>

\* lines 86-99: the key one finding is filed under
Normalize(f) ==
    LET got == IF "notes" \in DOMAIN f THEN Strip(f.notes) ELSE <<>>
        note == IF got = <<>> THEN NoPatternNoted ELSE got
        note_lower == Lower(note)
    IN IF Contains(note_lower, "dto") \/ Contains(note_lower, "data transfer") THEN PatternDto
       ELSE IF Contains(note_lower, "return")
               /\ (Contains(note_lower, "type") \/ Contains(note_lower, "value"))
            THEN PatternReturn
       ELSE IF Contains(note_lower, "test") THEN PatternTest
       ELSE IF Contains(note_lower, "intentional") THEN PatternIntentional
       ELSE note

\* lines 81-103: the keys in order of first insertion, and the findings of each
RECURSIVE PatternKeys(_, _)
PatternKeys(fs, keys) ==
    IF fs = <<>> THEN keys
    ELSE LET note == Normalize(Head(fs))
         IN PatternKeys(Tail(fs), IF \E i \in 1..Len(keys) : keys[i] = note
                                  THEN keys ELSE Append(keys, note))

extract_patterns(fs) ==
    [names |-> PatternKeys(fs, <<>>),
     items |-> [note \in {Normalize(fs[i]) : i \in 1..Len(fs)} |->
                   SelectSeq(fs, LAMBDA f : Normalize(f) = note)]]

SuggestDto == "Consider excluding structs with names ending in Info, Data, Config, Params"
SuggestReturn == "Consider checking if struct is used as a function return type"
SuggestTest == "Consider excluding #[test_only] modules and test files"
SuggestIntentional == "Document intentional exceptions in lint description"
SuggestReview == "Review patterns and determine lint refinement strategy"
SuggestDocument == "Document FP patterns with notes to generate recommendations."

\* lines 228-246: what the loop appends for one pattern
SuggestionsFor(pattern) ==
    LET pattern_lower == Lower(pattern)
    IN IF Contains(pattern_lower, "dto") \/ Contains(pattern_lower, "data transfer")
       THEN <<SuggestDto>>
       ELSE IF Contains(pattern_lower, "return") THEN <<SuggestReturn>>
       ELSE IF Contains(pattern_lower, "test") THEN <<SuggestTest>>
       ELSE IF Contains(pattern_lower, "intentional") THEN <<SuggestIntentional>>
       ELSE <<>>

RECURSIVE Recommendations(_)
Recommendations(pattern_names) ==
    IF pattern_names = <<>> THEN <<>>
    ELSE SuggestionsFor(Head(pattern_names)) \o Recommendations(Tail(pattern_names))

\* lines 219-253: the lines of the text returned; join(set(...)) puts each
\* distinct line once, in the iteration order of the set
GenerateRecommendation(pattern_names) ==
    IF pattern_names = <<>> \/ pattern_names = <<NoPatternNoted>>
    THEN {<<SuggestDocument>>}
    ELSE LET found == Recommendations(pattern_names)
             recommendations == IF found = <<>> THEN <<SuggestReview>> ELSE found
         IN IterationOrders({recommendations[i] : i \in 1..Len(recommendations)})

\* generate_fp_report line 188
ExtractPatterns ==
    /\ fps # <<>>
    /\ patterns = NoMetrics
    /\ patterns' = extract_patterns(fps)
    /\ UNCHANGED <<fps, recommendation, runnerVars, benchVars, cmpVars, triageVars, mainVars>>

\* generate_fp_report line 210
Recommend ==
    /\ patterns # NoMetrics
    /\ recommendation = NoMetrics
    /\ \E text \in GenerateRecommendation(patterns.names) :
          recommendation' = [lines |-> text]
    /\ UNCHANGED <<fps, patterns, runnerVars, benchVars, cmpVars, triageVars, mainVars>>

IdleRunner == call = NoCall /\ ret = NoCall

IdleBench ==
    /\ manifest = <<>> /\ parallel = 1 /\ disk = [r \in Repos |-> Missing]
    /\ lint_metadata = EmptyDict /\ futures = <<>>
    /\ broken = 0 /\ results = <<>> /\ collected = <<>> /\ yielded = {}
    /\ pc = "idle" /\ snapshot = NoSnapshot
    /\ files = EmptyFiles /\ written = <<>>

IdleCompare == old = NoSnapshot /\ new = NoSnapshot /\ report = NoReport /\ reverse = NoReport

IdleRecommend == fps = <<>> /\ patterns = NoMetrics /\ recommendation = NoMetrics

IdleTriage ==
    /\ mode = "idle" /\ findings = <<>> /\ metrics = NoMetrics /\ summary = NoMetrics
    /\ db = <<>> /\ stats = NoMetrics /\ rendered = NoMetrics
    /\ IdleRecommend

\* run_benchmark after load_repo_list and get_lint_metadata
Init ==
    /\ manifest \in SeqsUpTo(Repos, MaxRepos)
    /\ parallel \in 1..MaxWorkers
    /\ disk \in [Repos -> BenchDirs]
    /\ lint_metadata \in {get_lint_metadata(feed) : feed \in RuleFeeds}
    /\ futures = <<>> /\ broken = 0 /\ results = <<>> /\ collected = <<>> /\ yielded = {}
    /\ pc = "submit" /\ snapshot = NoSnapshot
    /\ files = EmptyFiles /\ written = <<>>
    /\ IdleRunner /\ IdleCompare /\ IdleTriage

Next ==
    \/ Submit
    \/ \E i \in 1..N : StartTask(i)
    \/ \E i \in 1..N : FinishTask(i)
    \/ \E i \in 1..N : WorkerDies(i)
    \/ \E i \in 1..N : Collect(i)
    \/ Aggregate
    \/ WriteSnapshot
    \/ Interrupt

Spec == Init /\ [][Next]_vars

InitRunner == IdleRunner /\ IdleBench /\ IdleCompare /\ IdleTriage

NextRunner == Invoke \/ RunnerReturn

SpecRunner == InitRunner /\ [][NextRunner]_vars

\* two baseline files given to compare_baselines, in either order
InitCompare ==
    /\ \/ old \in Baselines /\ new \in Baselines
       \/ old \in BigBaselines /\ new \in BigBaselines
    /\ report = NoReport /\ reverse = NoReport
    /\ IdleRunner /\ IdleBench /\ IdleTriage

NextCompare == CompareForward \/ CompareReverse

SpecCompare == InitCompare /\ [][NextCompare]_vars

\* Executions of main one after another in one working directory; the result
\* of run_benchmark is a snapshot of a run over the manifest of repository A
RunMain ==
    /\ Len(written) < MaxRuns
    /\ \E rs \in ResultsOfRepo("A"), v \in Versions, output \in Outputs :
          SaveResult(Stamped(BenchmarkResult(NamesOf(rs), rs,
                                             get_lint_metadata([kind |-> "exit", lines |-> <<RuleLineR1>>])),
                             v, Len(written) + 1),
                     output)
    /\ UNCHANGED <<manifest, parallel, disk, lint_metadata, futures, broken, results, collected,
                   yielded, pc, snapshot, runnerVars, cmpVars, triageVars, recVars>>

InitMain == IdleRunner /\ IdleBench /\ IdleCompare /\ IdleTriage

NextMain == RunMain

SpecMain == InitMain /\ [][NextMain]_vars

\* the section of the report for one lint with false positives (line 175: a
\* lint without any is skipped)
InitRecommend ==
    /\ fps \in SeqsUpTo(FpFindings, MaxFps) \ {<<>>}
    /\ patterns = NoMetrics /\ recommendation = NoMetrics
    /\ mode = "idle" /\ findings = <<>> /\ metrics = NoMetrics /\ summary = NoMetrics
    /\ db = <<>> /\ stats = NoMetrics /\ rendered = NoMetrics
    /\ IdleRunner /\ IdleBench /\ IdleCompare

NextRecommend == ExtractPatterns \/ Recommend

SpecRecommend == InitRecommend /\ [][NextRecommend]_vars

\* a triage file of either shape, loaded
InitTriage ==
    /\ \/ mode = "list" /\ findings \in TriageLists /\ db = <<>>
       \/ mode = "db" /\ db \in TriageDbs /\ findings = <<>>
    /\ metrics = NoMetrics /\ summary = NoMetrics /\ stats = NoMetrics /\ rendered = NoMetrics
    /\ IdleRunner /\ IdleBench /\ IdleCompare /\ IdleRecommend

NextTriage == CalculateMetrics \/ PrintSummary \/ GenerateReport \/ AnalyzeFp

SpecTriage == InitTriage /\ [][NextTriage]_vars

-----------------------------------------------------------------------------
(* Claims about run_benchmark (checked under Spec) *)

Drained == pc = "done"

SumCounts(by_lint) == SumValues([l \in DOMAIN by_lint |-> by_lint[l].count])
SumRepoFindings(repos) == SumValues([r \in DOMAIN repos |-> repos[r].findings])

\* C1: in every snapshot run_benchmark produces, total_findings equals the sum
\* of the per-rule counts of by_lint and equals the sum of the findings of the
\* entries of the repos map, also when the manifest names a repository twice.
C1_TotalsAgree ==
    Drained => /\ snapshot.total_findings = SumCounts(snapshot.by_lint)
               /\ snapshot.total_findings = SumRepoFindings(snapshot.repos)

\* C2: once the pool has drained, results holds exactly one RepoResult per
\* submitted work item, none twice: the task's own result when it returned
\* one, and a synthesized result carrying the caught error when collecting
\* the future raised.
C2_EveryItemOnce ==
    Drained =>
        /\ Len(results) = N
        /\ Len(collected) = N
        /\ \A i \in 1..N : Cardinality({k \in 1..Len(collected) : collected[k] = i}) = 1
        /\ \A k \in 1..Len(results) :
              /\ k \in DOMAIN collected
              /\ results[k].name = manifest[collected[k]]
              /\ LET fut == futures[collected[k]]
                 IN IF fut.state = "done" THEN results[k] = fut.result
                    ELSE results[k].error = Err(fut.text)

\* C2 witness: a drained run of two items in which collecting one future
\* raised and the other task returned a result
C2_Witness ==
    /\ Drained
    /\ N = 2
    /\ \E i, j \in 1..N : futures[i].state = "failed" /\ futures[j].state = "done"

\* C3: a task whose worker crashed (or that timed out) leaves every other
\* submitted task to run and to deliver its own RepoResult: each item other
\* than the crashed one completed and its own result is in results.
C3_Isolated ==
    Drained =>
        \A i \in 1..N :
            i # broken =>
                /\ futures[i].state = "done"
                /\ \E k \in 1..Len(results) : collected[k] = i /\ results[k] = futures[i].result

-----------------------------------------------------------------------------
(* Claims about run_lint_on_repo (checked under SpecRunner) *)

Returned == call # NoCall /\ ret # NoCall

\* the analyzer was run: the directory exists and holds source files
AnalyzerInvoked == call.repo.isdir /\ count_move_files(call.repo) > 0

\* C4: run_lint_on_repo is total: whatever the directory holds and whatever the
\* analyzer call does (exit, timeout, exception) the caller gets a RepoResult
\* for the repository, never an exception.
C4_Total ==
    Returned => /\ ret.kind = "return"
                /\ ret.value.name = call.args.repo_name
                /\ DOMAIN ret.value =
                      {"name", "total_findings", "move_files", "lint_breakdown", "error"}

\* C4 witness: the subprocess call raised something that is not a timeout
C4_Witness == Returned /\ AnalyzerInvoked /\ call.out.kind = "raise"

\* C5: when the analyzer run fails other than by timeout (the call raises, the
\* analyzer crashes or exits with a non-zero status) the RepoResult carries a
\* non-empty error.
C5_FailureHasError ==
    (/\ Returned
     /\ AnalyzerInvoked
     /\ \/ call.out.kind = "raise"
        \/ call.out.kind = "exit" /\ call.out.status # 0)
    => /\ ret.kind = "return"
       /\ ret.value.error.some
       /\ ret.value.error.text # ""

\* the key the claim puts a marker line under
ClaimedKey(line) == IF LintNameOf(line) = <<>> THEN Unknown ELSE LintNameOf(line)

\* C6: every output line holding the marker is counted as one finding under
\* one rule, and a marker line with no rule name to parse is counted under
\* "unknown" and under no other key.
C6_UnparseableIsUnknown ==
    (Returned /\ AnalyzerInvoked /\ call.out.kind = "exit") =>
        LET output == call.out.output
            markers == {i \in 1..Len(output) : HasMarker(output[i])}
            bd == ret.value.lint_breakdown
        IN /\ ret.value.total_findings = Cardinality(markers)
           /\ DOMAIN bd = {ClaimedKey(output[i]) : i \in markers}
           /\ \A key \in DOMAIN bd :
                 bd[key] = Cardinality({i \in markers : ClaimedKey(output[i]) = key})

-----------------------------------------------------------------------------
(* Claims about compare_baselines (checked under SpecCompare) *)

BothCompared == report # NoReport /\ reverse # NoReport

\* the rows of a change list as a set of (key, delta) pairs
DeltaSet(rows) == {<<rows[i].key, rows[i].delta>> : i \in 1..Len(rows)}
Negated(pairs) == {<<p[1], -p[2]>> : p \in pairs}

\* C7: comparing old with new and new with old gives negated deltas at every
\* granularity (overall, per tier, per rule, per repo), the same rules and
\* repos in the two change lists, and the rules new in one direction are the
\* rules removed in the other.
C7_ReverseNegates ==
    BothCompared =>
        /\ \A m \in DOMAIN report.overall : reverse.overall[m].delta = -report.overall[m].delta
        /\ DOMAIN reverse.tiers = DOMAIN report.tiers
        /\ \A t \in DOMAIN report.tiers : reverse.tiers[t].delta = -report.tiers[t].delta
        /\ DeltaSet(reverse.changes) = Negated(DeltaSet(report.changes))
        /\ Len(reverse.changes) = Len(report.changes)
        /\ DeltaSet(reverse.repo_changes) = Negated(DeltaSet(report.repo_changes))
        /\ Len(reverse.repo_changes) = Len(report.repo_changes)
        /\ DOMAIN report.new_only = DOMAIN reverse.removed
        /\ DOMAIN report.removed = DOMAIN reverse.new_only

\* C7 witness: both directions compared, with a rule and a repository that
\* changed, a rule that rose and a rule only the new baseline has
C7_Witness ==
    /\ BothCompared
    /\ \E i \in 1..Len(report.changes) : report.changes[i].delta > 0
    /\ \E i \in 1..Len(report.changes) : report.changes[i].delta < 0
    /\ report.repo_changes # <<>>
    /\ DOMAIN report.new_only # {}

\* C8: comparing a baseline with itself gives delta zero for the three overall
\* metrics and every tier, no rule and no repo change, no new and no removed
\* rule, and the verdict "no change".
C8_SelfCompareIsNoChange ==
    (old = new /\ report # NoReport) =>
        /\ \A m \in DOMAIN report.overall : report.overall[m].delta = 0
        /\ \A t \in DOMAIN report.tiers : report.tiers[t].delta = 0
        /\ report.changes = <<>> /\ report.shown = <<>> /\ report.more = 0
        /\ report.repo_changes = <<>> /\ report.repo_shown = <<>>
        /\ DOMAIN report.new_only = {} /\ DOMAIN report.removed = {}
        /\ report.verdict.kind = "no change"

\* C8 witness: a baseline with findings of two rules in two repositories was
\* compared with itself
C8_Witness ==
    /\ old = new /\ report # NoReport
    /\ Cardinality(DOMAIN old.by_lint) = 2 /\ Cardinality(DOMAIN old.repos) = 2
    /\ old.total_findings > 0

-----------------------------------------------------------------------------
(* Claims about the triage metrics (checked under SpecTriage) *)

Hundred == FromInt(100)

\* the float next to 100 on either side, or 100 itself
NearHundred(x) ==
    \/ x = Hundred
    \/ x.e = Hundred.e /\ AddBits(x.m, <<1>>) = Hundred.m
    \/ x.e = Hundred.e /\ AddBits(Hundred.m, <<1>>) = x.m

InRange(x) == FLessEq(FZero, x) /\ FLessEq(x, Hundred)

\* the findings of a triage list that have a rule and a classification
Classified(l, c) == Cardinality({i \in 1..Len(findings) : findings[i] = Finding(l, c)})

\* the findings of a triage database that have a rule and a status
WithStatus(l, st) == Cardinality({i \in 1..Len(db) : db[i] = DbFinding(l, st)})

\* n / d as a percentage, 0 when d = 0
Percent(n, d) == IF d = 0 THEN FZero ELSE FMulInt(FDivInt(n, d), 100)

\* C9 as stated: for every rule of the output of calculate_metrics fp_rate and
\* precision lie in [0, 100], they add up to exactly 100 when tp + fp > 0, and
\* both are 0 when tp + fp = 0.
C9_RateAndPrecisionExact ==
    metrics # NoMetrics =>
        \A l \in DOMAIN metrics :
            /\ InRange(metrics[l].fp_rate) /\ InRange(metrics[l].precision)
            /\ Classified(l, "TP") + Classified(l, "FP") > 0 =>
                   FAdd(metrics[l].fp_rate, metrics[l].precision) = Hundred
            /\ Classified(l, "TP") + Classified(l, "FP") = 0 =>
                   metrics[l].fp_rate = FZero /\ metrics[l].precision = FZero

\* C9 amended: for every rule of the output of calculate_metrics fp_rate and
\* precision lie in [0, 100], both are 0 when tp + fp = 0, and when tp + fp > 0
\* their float sum is 100 or the float next to 100 (within 2^-46 of 100).
C9_RateAndPrecisionRounded ==
    metrics # NoMetrics =>
        \A l \in DOMAIN metrics :
            /\ InRange(metrics[l].fp_rate) /\ InRange(metrics[l].precision)
            /\ Classified(l, "TP") + Classified(l, "FP") > 0 =>
                   NearHundred(FAdd(metrics[l].fp_rate, metrics[l].precision))
            /\ Classified(l, "TP") + Classified(l, "FP") = 0 =>
                   metrics[l].fp_rate = FZero /\ metrics[l].precision = FZero

\* C9 witness: metrics computed for a rule whose rate and precision do not
\* add up to 100 and for a rule with nothing but informational findings
C9_Witness ==
    /\ metrics # NoMetrics
    /\ \E l \in DOMAIN metrics :
          /\ metrics[l].tp > 0 /\ metrics[l].fp > 0
          /\ FAdd(metrics[l].fp_rate, metrics[l].precision) # Hundred
    /\ \E l \in DOMAIN metrics : metrics[l].tp + metrics[l].fp = 0 /\ metrics[l].info > 0

\* the rate of the TP/FP/INFO/SKIP shape: FP over TP + FP
ListRateOverTpFp ==
    metrics # NoMetrics =>
        \A l \in DOMAIN metrics :
            metrics[l].fp_rate =
                Percent(Classified(l, "FP"), Classified(l, "TP") + Classified(l, "FP"))

\* C10 as stated: in both dataset shapes the rate of a rule is its false
\* positives over true positives + false positives only; in the status shape
\* it is fp / (confirmed + fp), whatever wont_fix and needs_review findings
\* the rule has.
C10_RateOverTpFpOnly ==
    /\ ListRateOverTpFp
    /\ stats # NoMetrics =>
           \A l \in DOMAIN stats :
               stats[l].fp_rate =
                   Percent(WithStatus(l, "false_positive"),
                           WithStatus(l, "confirmed") + WithStatus(l, "false_positive"))

\* C10 amended: in the TP/FP/INFO/SKIP shape the rate of a rule is FP over
\* TP + FP, whatever INFO and SKIP findings it has; in the status shape it is
\* fp / (confirmed + fp + wont_fix): needs_review findings and findings with
\* no status leave it unchanged, wont_fix findings enlarge the denominator.
C10_RateOverReviewed ==
    /\ ListRateOverTpFp
    /\ stats # NoMetrics =>
           \A l \in DOMAIN stats :
               stats[l].fp_rate =
                   Percent(WithStatus(l, "false_positive"),
                           WithStatus(l, "confirmed") + WithStatus(l, "false_positive")
                               + WithStatus(l, "wont_fix"))

\* C10 witness: rates computed for a rule of the status shape with a
\* confirmed, a false-positive, a wont_fix and a needs_review finding
C10_Witness ==
    /\ stats # NoMetrics
    /\ \E l \in DOMAIN stats :
          /\ stats[l].data.confirmed > 0 /\ stats[l].data.fp > 0
          /\ stats[l].data.wont_fix > 0 /\ stats[l].data.needs_review > 0

-----------------------------------------------------------------------------
(* Claims about the maturity recommendations (checked under SpecTriage) *)

\* C11: a rule is in the promotion list only if its FP rate is below 10 and it
\* has at least 5 findings classified TP or FP; INFO and SKIP findings do not
\* count towards the 5.
C11_PromotionNeedsClassifiedSample ==
    summary # NoMetrics =>
        \A l \in summary.promotable :
            /\ FLess(metrics[l].fp_rate, FromInt(10))
            /\ Classified(l, "TP") + Classified(l, "FP") >= 5

\* C12: the status shown for a rule agrees with the recommendation list the
\* rule is put in (promote: Stable, refine and stay in Preview: Preview,
\* demote: Research), and no rule is in two lists.
C12_StatusAgreesWithBucket ==
    summary # NoMetrics =>
        \A l \in DOMAIN summary.status :
            /\ l \in summary.promotable => summary.status[l] = "STABLE"
            /\ l \in summary.needs_refinement => summary.status[l] = "PREVIEW"
            /\ l \in summary.needs_demotion => summary.status[l] = "RESEARCH"
            /\ ~(l \in summary.promotable /\ l \in summary.needs_refinement)
            /\ ~(l \in summary.needs_refinement /\ l \in summary.needs_demotion)
            /\ ~(l \in summary.promotable /\ l \in summary.needs_demotion)

-----------------------------------------------------------------------------
(* Claims about the snapshot file (C13 under SpecMain, C18 under Spec) *)

\* C13: when the benchmark is run repeatedly with no --output, the file each
\* execution wrote is still there with the content that execution wrote,
\* also when two executions report the same analyzer version.
C13_EarlierSnapshotIntact ==
    (\A k \in 1..Len(written) : ~written[k].output.given) =>
        \A k \in 1..Len(written) :
            /\ written[k].path \in DOMAIN files
            /\ files[written[k].path] = written[k].content

-----------------------------------------------------------------------------
(* Claims about the aggregation (checked under Spec) *)

\* what C14 compares of a snapshot: the repos of a rule as a set
AggregateView(b) ==
    [total_findings |-> b.total_findings,
     repos_with_findings |-> b.repos_with_findings,
     counts |-> [l \in DOMAIN b.by_lint |-> b.by_lint[l].count],
     repo_sets |-> [l \in DOMAIN b.by_lint |->
                      {b.by_lint[l].repos[i] : i \in 1..Len(b.by_lint[l].repos)}],
     by_tier |-> b.by_tier,
     by_category |-> b.by_category,
     repos |-> b.repos]

\* the results in the completion order p
Reordered(p) == [i \in 1..Len(results) |-> results[p[i]]]

\* C14: the snapshot of a run is the one every other completion order of the
\* same RepoResults gives: same totals, per-rule counts and repo sets, tier
\* and category rollups and per-repo summaries.
C14_OrderIndependent ==
    Drained =>
        \A p \in IterationOrders(1..Len(results)) :
            AggregateView(BenchmarkResult(manifest, Reordered(p), lint_metadata))
                = AggregateView(BenchmarkResult(manifest, results, lint_metadata))

\* C15: in every snapshot the repo list of a rule names no repository twice
\* and names exactly the repositories with a result that reported the rule.
C15_RepoListIsASet ==
    Drained =>
        \A l \in DOMAIN snapshot.by_lint :
            LET repos == snapshot.by_lint[l].repos
            IN /\ \A i, j \in 1..Len(repos) : i # j => repos[i] # repos[j]
               /\ {repos[i] : i \in 1..Len(repos)} =
                      {results[k].name : k \in {x \in 1..Len(results) :
                                                   DictGet(results[x].lint_breakdown, l, 0) > 0}}

-----------------------------------------------------------------------------
(* Claims about the ranking of compare_baselines (checked under SpecCompare) *)

\* the rows are in non-increasing order of absolute delta
Ranked(rows) == \A i \in 1..(Len(rows) - 1) : Abs(rows[i].delta) >= Abs(rows[i + 1].delta)

\* the rows are those of the keys of the two tables with a non-zero delta, each once
ExactlyChanged(rows, old_table, new_table, field) ==
    /\ \A i, j \in 1..Len(rows) : i # j => rows[i].key # rows[j].key
    /\ {rows[i].key : i \in 1..Len(rows)} =
           {k \in DOMAIN old_table \cup DOMAIN new_table :
               FieldOr0(new_table, k, field) - FieldOr0(old_table, k, field) # 0}
    /\ \A i \in 1..Len(rows) :
           rows[i].delta = FieldOr0(new_table, rows[i].key, field)
                               - FieldOr0(old_table, rows[i].key, field)

\* C16 without the fixed order of ties: the change lists hold exactly the keys
\* with a non-zero delta, ranked by absolute delta; the first 20 rules and 10
\* repos are shown and the count of omitted rules is the rest.
C16_RankedAndCut ==
    report # NoReport =>
        /\ ExactlyChanged(report.changes, old.by_lint, new.by_lint, "count")
        /\ ExactlyChanged(report.repo_changes, old.repos, new.repos, "findings")
        /\ Ranked(report.changes) /\ Ranked(report.repo_changes)
        /\ report.shown = SubSeq(report.changes, 1, Min(20, Len(report.changes)))
        /\ report.repo_shown = SubSeq(report.repo_changes, 1, Min(10, Len(report.repo_changes)))
        /\ report.more = (IF Len(report.changes) > 20 THEN Len(report.changes) - 20 ELSE 0)

\* the two inputs alone fix the order of the change lists
C16_SameOrderEveryRun ==
    report # NoReport =>
        \A li \in LintOrders(DOMAIN old.by_lint \cup DOMAIN new.by_lint),
           ri \in RepoOrders(DOMAIN old.repos \cup DOMAIN new.repos) :
            LET again == compare_baselines(old, new, li, ri)
            IN /\ again.changes = report.changes /\ again.shown = report.shown
               /\ again.repo_changes = report.repo_changes /\ again.repo_shown = report.repo_shown

\* C16: the change lists hold exactly the keys with a non-zero delta, ranked
\* by absolute delta, with the order of ties and the entries shown fixed by
\* the two snapshots alone; 20 rules and 10 repos are shown and the number of
\* omitted rules is the number of changes minus 20.
C16_RankingDeterministic == C16_RankedAndCut /\ C16_SameOrderEveryRun

-----------------------------------------------------------------------------
(* Claims about the enrichment of by_lint (checked under Spec) *)

\* C17: in every snapshot each rule of by_lint carries a tier and a category:
\* the metadata's values for a rule found in the metadata, "unknown" and
\* "unknown" for a rule absent from it, the bucket its count is rolled up into.
C17_EveryRuleTagged ==
    snapshot # NoSnapshot =>
        \A l \in DOMAIN snapshot.by_lint :
            LET e == snapshot.by_lint[l]
            IN /\ {"tier", "category"} \subseteq DOMAIN e
               /\ IF l \in DOMAIN lint_metadata
                  THEN e.tier = lint_metadata[l].tier /\ e.category = lint_metadata[l].category
                  ELSE e.tier = "unknown" /\ e.category = "unknown"
               /\ e.tier \in DOMAIN snapshot.by_tier
               /\ e.category \in DOMAIN snapshot.by_category

\* C17 for the rules found in the metadata only
C17_KnownRuleTagged ==
    snapshot # NoSnapshot =>
        \A l \in DOMAIN snapshot.by_lint \cap DOMAIN lint_metadata :
            LET e == snapshot.by_lint[l]
            IN /\ {"tier", "category"} \subseteq DOMAIN e
               /\ e.tier = lint_metadata[l].tier /\ e.category = lint_metadata[l].category
               /\ e.tier \in DOMAIN snapshot.by_tier
               /\ e.category \in DOMAIN snapshot.by_category

\* a rule absent from the metadata is counted in the "unknown" buckets
C17_AbsentRuleInUnknownBucket ==
    snapshot # NoSnapshot =>
        \A l \in DOMAIN snapshot.by_lint \ DOMAIN lint_metadata :
            /\ "unknown" \in DOMAIN snapshot.by_tier
            /\ "unknown" \in DOMAIN snapshot.by_category
            /\ snapshot.by_tier["unknown"] >= snapshot.by_lint[l].count

-----------------------------------------------------------------------------
(* Claims about the barrier before the snapshot is written (checked under Spec) *)

\* every submitted task has resolved and its result has been taken
AllResolved ==
    /\ Len(futures) = N
    /\ \A i \in 1..N : futures[i].state \in {"done", "failed"} /\ i \in yielded
    /\ Len(results) = N

\* C18: a snapshot exists, and its file is written, only after every submitted
\* task has resolved to a RepoResult and the aggregation over all of them has
\* finished; a run that is interrupted has written no file.
C18_SnapshotAfterBarrier ==
    /\ snapshot # NoSnapshot =>
           /\ AllResolved
           /\ snapshot = Stamped(BenchmarkResult(manifest, results, lint_metadata),
                                 snapshot.version, snapshot.timestamp)
    /\ written # <<>> =>
           /\ pc = "written" /\ snapshot # NoSnapshot /\ Len(written) = 1
           /\ written[1].content = snapshot
           /\ files = WriteFile(EmptyFiles, written[1].path, snapshot)
    /\ pc = "interrupted" => written = <<>> /\ files = EmptyFiles

\* a file written after two tasks, one of which failed in the pool
C18_Witness ==
    /\ pc = "written" /\ N = 2 /\ DOMAIN files # {}
    /\ \E i \in 1..N : futures[i].state = "failed"
    /\ \E i \in 1..N : futures[i].state = "done"

-----------------------------------------------------------------------------
(* Claims about the results that carry an error (checked under Spec) *)

\* the errors of the two early returns of run_lint_on_repo (lines 113-131)
EarlyReturnErrors == {Err("Directory not found"), Err("No .move files found")}

\* C19: every RepoResult with an error has 0 findings and an empty breakdown;
\* one that the executor loop synthesized apart, a timeout or another analyzer
\* failure carries the file count computed before the analyzer was invoked,
\* and with a missing directory or no source file the analyzer is not
\* invoked: the result is the same whatever the analyzer would have done.
C19_ErrorResultIsEmpty ==
    \A k \in 1..Len(results) :
        LET r == results[k]
            i == collected[k]
            repo == disk[work_items[i].repo_path]
        IN r.error # NoError =>
              /\ r.total_findings = 0
              /\ r.lint_breakdown = EmptyDict
              /\ futures[i].state = "done" =>
                    IF r.error \in EarlyReturnErrors
                    THEN /\ ~(repo.isdir /\ count_move_files(repo) > 0)
                         /\ \A out \in AnalyzerOutcomes :
                                run_lint_on_repo(work_items[i], repo, out) = Return(r)
                    ELSE /\ repo.isdir
                         /\ r.move_files = count_move_files(repo)
                         /\ r.move_files > 0

\* results of a timeout, of a missing directory and of a future the broken
\* pool failed, in one run
C19_Witness ==
    /\ \E k \in 1..Len(results) :
           results[k].error = Err("Timeout after 180s") /\ results[k].move_files > 0
    /\ \E k \in 1..Len(results) : futures[collected[k]].state = "failed"

-----------------------------------------------------------------------------
(* Claims about _generate_recommendation (checked under SpecRecommend) *)

Recommended == recommendation # NoMetrics

LinesOf(text) == {text[i] : i \in 1..Len(text)}

\* the pattern is one the loop of lines 228-246 has a suggestion for
Recognized(pattern) == SuggestionsFor(pattern) # <<>>

\* the suggestion of every recognized pattern is in the text, and no line of
\* the text is there twice
C20_MappedOnce ==
    Recommended =>
        /\ \A i \in 1..Len(patterns.names) :
               Recognized(patterns.names[i]) =>
                   SuggestionsFor(patterns.names[i])[1] \in LinesOf(recommendation.lines)
        /\ \A i, j \in 1..Len(recommendation.lines) :
               i # j => recommendation.lines[i] # recommendation.lines[j]

\* a pattern without a suggestion puts the generic line into the text
C20_UnmappedGetsReview ==
    Recommended =>
        \A i \in 1..Len(patterns.names) :
            ~Recognized(patterns.names[i]) => SuggestReview \in LinesOf(recommendation.lines)

\* C20: the text holds the canonical suggestion of every recognized pattern
\* and, for every pattern without a mapped suggestion, the generic "review and
\* determine refinement strategy" line, also when another pattern of the rule
\* has a suggestion; each distinct line is in the text exactly once.
C20_EveryPatternAnswered == C20_MappedOnce /\ C20_UnmappedGetsReview

-----------------------------------------------------------------------------
(* Claims about generate_report (checked under SpecTriage) *)

Rendered == rendered # NoMetrics

\* the dataset has no finding classified TP or FP
NothingClassified == \A i \in 1..Len(findings) : findings[i].classification \notin {"TP", "FP"}

\* the dataset has a finding classified FP
SomeFalsePositive == \E i \in 1..Len(findings) : findings[i].classification = "FP"

\* C21: generate_report completes and writes the whole report without raising
\* for every triage dataset, also for one with no finding classified TP or FP
\* (the overall precision follows the zero-denominator convention) and for
\* one with a false positive (the common causes are rendered).
C21_ReportCompletes ==
    Rendered =>
        /\ rendered.raised = "none"
        /\ rendered.sections[Len(rendered.sections)] = "recommendations"
        /\ NothingClassified => rendered.precision = FZero

\* generate_report completes exactly for the datasets with a true positive
\* and no false positive
C21_CompletesOnlyWithoutFp ==
    Rendered =>
        /\ rendered.raised = "none" <=> (~NothingClassified /\ ~SomeFalsePositive)
        /\ NothingClassified => rendered.raised = "ZeroDivisionError"
        /\ SomeFalsePositive => rendered.raised \in {"TypeError", "KeyError"}

====
